---- MODULE Spec2Model ----
(***************************************************************************)
(* romjak: split one linear binary image into per-ROM images, interleaved  *)
(* by the ROM data bus width, grouped in banks, padded with 0xff and       *)
(* repeated every paduptosize bytes.  The model follows main() of romjak.c *)
(* from the checks of the numbers to the end of the copy loop.             *)
(***************************************************************************)
EXTENDS Integers, Sequences, FiniteSets, TLC

(* ------------------------------ limits -------------------------------- *)

MAXROMS == 16

MAXROMWIDTH == 32

MAXSTRIDE == MAXROMWIDTH \div 8

MAXBANKS == 4

MAXROMSPERBANK == MAXROMS \div MAXBANKS

(* ------------------------- bounds of the model ------------------------ *)

(* largest --romsize tried *)
MaxRomSize == 4

(* largest --paduptosize tried *)
MaxPad == 3

(* longest input file tried, in bytes *)
MaxInput == 4

(* largest total size (romsize * numroms) tried *)
MaxTotal == 17

(* short writes the environment may inject in one run *)
MaxFaults == 1

(* ------------------------- inputs of a run ---------------------------- *)

(* a struct arg_int after arg_parse: given once with value n, or not given *)
Arg(n) == [count |-> 1, ival |-> n]

NoArg == [count |-> 0, ival |-> 0]

(* --numroms values tried: 17 is over MAXROMS, 10 overflows a row of outputs[][] *)
NumRomsChoices == {1, 2, 3, 4, 10, 17}

(* --romwidth values tried; 8 is reached through the default *)
RomWidthChoices == {NoArg} \cup { Arg(n) : n \in {0, 12, 16, 32, 40} }

(* --rombanks values tried; 1 is reached through the default *)
RomBanksChoices == {NoArg} \cup { Arg(n) : n \in {2, 3, 5} }

PadChoices == {NoArg} \cup { Arg(n) : n \in 1 .. MaxPad }

(* the input file holds the bytes 0, 1, 2, ... , n-1 *)
InputChoices == { [i \in 1 .. n |-> i - 1] : n \in 1 .. MaxInput }

VARIABLES
    args,        \* the parsed command line: numroms, romsize, romwidth, rombanks, paduptosize
    input,       \* the bytes of the input file
    pc,          \* where main() is
    inputOpen,   \* the input FILE* is open
    fpos,        \* the input stream's file position
    outputs,     \* FILE *outputs[MAXBANKS][MAXROMSPERBANK], as it lies in memory
    files,       \* the output files on disk: name -> bytes
    open_i,      \* i of the loop that opens the outputs
    open_j,      \* j of the loop that opens the outputs
    this_bank,
    pos_bank,
    this_rom,
    strides,     \* history: every fwrite of the copy loop
    shortWrites  \* how many of them were cut short by the environment

vars == <<args, input, pc, inputOpen, fpos, outputs, files, open_i, open_j,
          this_bank, pos_bank, this_rom, strides, shortWrites>>

(* ----------------------- the numbers of a run ------------------------- *)

get_arg_or_default(arg, defval) ==
    IF arg.count > 0 THEN arg.ival ELSE defval

numroms == args.numroms

romsize == args.romsize

totalsz == romsize * numroms

paduptosize == get_arg_or_default(args.paduptosize, totalsz)

rombanks == get_arg_or_default(args.rombanks, 1)

romwidth == get_arg_or_default(args.romwidth, 8)

(* the checks without the one that the width is a multiple of 8 *)
check_numbers_no_multiple_of_8 ==
    IF rombanks > MAXBANKS THEN "Sorry, too many banks"
    ELSE IF romwidth > MAXROMWIDTH THEN "ROM width is too big"
    ELSE IF (numroms % rombanks) # 0
        THEN "number of ROMs must be a multiple of number of banks"
    ELSE IF numroms > MAXROMS THEN "Sorry, too many ROMs"
    ELSE "ok"

(* the checks main() makes, in its order; "ok" when none of them exits *)
check_numbers ==
    IF rombanks > MAXBANKS THEN "Sorry, too many banks"
    ELSE IF (romwidth % 8) # 0 THEN "ROM width needs to be a multiple of 8"
    ELSE IF romwidth > MAXROMWIDTH THEN "ROM width is too big"
    ELSE IF (numroms % rombanks) # 0
        THEN "number of ROMs must be a multiple of number of banks"
    ELSE IF numroms > MAXROMS THEN "Sorry, too many ROMs"
    ELSE "ok"

romsperbank == numroms \div rombanks

banksz == romsize * romsperbank

stride == romwidth \div 8

repeats == romsize \div paduptosize

inputsize == Len(input)

(* --------------------------- output names ----------------------------- *)

basename == "out"

Digit(d) == <<"0", "1", "2", "3", "4", "5", "6", "7", "8", "9">>[d + 1]

RECURSIVE FormatD(_)
(* printf's %d of a non-negative int, as a sequence of characters *)
FormatD(n) ==
    IF n < 10 THEN <<Digit(n)>> ELSE FormatD(n \div 10) \o <<Digit(n % 10)>>

(* sprintf(.., "%s.%d", basename, i) and sprintf(.., "%s.%d.%d", basename, i, j) *)
output_names(i, j) ==
    IF rombanks = 1
        THEN <<basename, ".">> \o FormatD(j)
        ELSE <<basename, ".">> \o FormatD(i) \o <<".">> \o FormatD(j)

(* ----------------------- the table of handles ------------------------- *)

NULL == <<>>

(* where outputs[i][j] lies in the MAXBANKS x MAXROMSPERBANK array *)
Cell(i, j) == i * MAXROMSPERBANK + j

Cells == 0 .. (MAXBANKS * MAXROMSPERBANK - 1)

(* the (bank, rom) pairs both loops of main() run over *)
Slots == { <<b, r>> \in (0 .. rombanks - 1) \X (0 .. romsperbank - 1) : TRUE }

(* ------------------------------ stdio --------------------------------- *)

PadByte == 255

(* the buffer cleared to 0 instead of filled with the padding byte *)
memset_data_zero == [j \in 1 .. stride |-> 0]

(* memset(data, 0xff, sizeof(data)), seen through the stride bytes written *)
memset_data == [j \in 1 .. stride |-> PadByte]

(* fread(data, stride, 1, input) at file position p: the bytes the file
   still has overwrite the head of data, the rest of data is left alone *)
fread_data(data, p) ==
    [j \in 1 .. stride |-> IF p + j <= inputsize THEN input[p + j] ELSE data[j]]

fread_pos(p) == IF p + stride <= inputsize THEN p + stride ELSE inputsize

(* ------------------------------ Init ---------------------------------- *)

Init ==
    /\ args \in { a \in [numroms : NumRomsChoices, romsize : 1 .. MaxRomSize,
                         romwidth : RomWidthChoices, rombanks : RomBanksChoices,
                         paduptosize : PadChoices] :
                     a.numroms * a.romsize <= MaxTotal }
    /\ input \in InputChoices
    /\ pc = "Validate"
    /\ inputOpen = FALSE
    /\ fpos = 0
    /\ outputs = [c \in Cells |-> NULL]
    /\ files = [n \in {} |-> << >>]
    /\ open_i = 0
    /\ open_j = 0
    /\ this_bank = 0
    /\ pos_bank = 0
    /\ this_rom = 0
    /\ strides = {}
    /\ shortWrites = 0

(* --------------------------- the steps -------------------------------- *)

(* lines 103-137: a number that is not logical ends the run with exit(1) *)
Validate ==
    /\ pc = "Validate"
    /\ pc' = IF check_numbers = "ok" THEN "Planned" ELSE "Rejected"
    /\ UNCHANGED <<args, input, inputOpen, fpos, outputs, files, open_i, open_j,
                   this_bank, pos_bank, this_rom, strides, shortWrites>>

(* lines 182, 189-191: fopen(input) succeeds, the size is taken, rewind *)
OpenInput ==
    /\ pc = "Planned"
    /\ inputOpen' = TRUE
    /\ fpos' = 0
    /\ open_i' = 0
    /\ open_j' = 0
    /\ pc' = "OpenOutputs"
    /\ UNCHANGED <<args, input, outputs, files, this_bank, pos_bank, this_rom,
                   strides, shortWrites>>

(* lines 182-186: fopen(input) returns NULL, exit(1) *)
OpenInputFail ==
    /\ pc = "Planned"
    /\ pc' = "Failed"
    /\ UNCHANGED <<args, input, inputOpen, fpos, outputs, files, open_i, open_j,
                   this_bank, pos_bank, this_rom, strides, shortWrites>>

(* the for loops of lines 193-194 step to the next (i, j), or fall through
   to the copy loop, which starts at bank 0, row 0, rom 0 *)
NextOpen ==
    LET j1 == open_j + 1
        rowDone == ~(j1 < romsperbank)
        i1 == open_i + 1
        allDone == rowDone /\ ~(i1 < rombanks)
    IN  /\ open_j' = IF rowDone THEN 0 ELSE j1
        /\ open_i' = IF rowDone THEN i1 ELSE open_i
        /\ pc' = IF allDone THEN "Running" ELSE "OpenOutputs"

(* line 195: fopen(output_names[i][j], "w") succeeds: the file is created
   or truncated and its handle stored in outputs[i][j] *)
OpenOutput ==
    /\ pc = "OpenOutputs"
    /\ LET name == output_names(open_i, open_j)
       IN  /\ files' = [n \in (DOMAIN files) \cup {name} |->
                            IF n = name THEN << >> ELSE files[n]]
           /\ outputs' = [outputs EXCEPT ![Cell(open_i, open_j)] = name]
    /\ NextOpen
    /\ UNCHANGED <<args, input, inputOpen, fpos, this_bank, pos_bank, this_rom,
                   strides, shortWrites>>

(* fopen of an output returns NULL and the loop goes on without exit(1) *)
OpenOutputFail_no_exit ==
    /\ pc = "OpenOutputs"
    /\ outputs' = [outputs EXCEPT ![Cell(open_i, open_j)] = NULL]
    /\ NextOpen
    /\ UNCHANGED <<args, input, inputOpen, fpos, files, this_bank, pos_bank,
                   this_rom, strides, shortWrites>>

(* lines 195-199: fopen of an output returns NULL, exit(1) *)
OpenOutputFail ==
    /\ pc = "OpenOutputs"
    /\ outputs' = [outputs EXCEPT ![Cell(open_i, open_j)] = NULL]
    /\ pc' = "Failed"
    /\ UNCHANGED <<args, input, inputOpen, fpos, files, open_i, open_j,
                   this_bank, pos_bank, this_rom, strides, shortWrites>>

(* line 216; the sizes tried keep it far below the 2^32 of unsigned int *)
pos_abs == (this_bank * banksz) + pos_bank + (this_rom * stride)

(* line 218 *)
pos_repeat == pos_abs % paduptosize

(* the for loops of lines 206-210 step to the next (bank, row, rom) *)
NextStride ==
    LET r1 == this_rom + 1
        rowDone == ~(r1 < romsperbank)
        p1 == pos_bank + (romsperbank * stride)
        bankDone == rowDone /\ ~(p1 < banksz)
        b1 == this_bank + 1
        allDone == bankDone /\ ~(b1 < rombanks)
    IN  /\ this_rom' = IF rowDone THEN 0 ELSE r1
        /\ pos_bank' = IF bankDone THEN 0 ELSE IF rowDone THEN p1 ELSE pos_bank
        /\ this_bank' = IF bankDone THEN b1 ELSE this_bank
        /\ pc' = IF allDone THEN "Completed" ELSE "Running"

(* lines 211-232, one pass of the innermost loop, of which fwrite commits
   the first k bytes of the stride; the value fwrite returns is not read *)
Copy(k) ==
    /\ pc = "Running"
    /\ LET output == outputs[Cell(this_bank, this_rom)]
           at == IF pos_repeat = 0 THEN 0 ELSE fpos
           doRead == pos_repeat < inputsize
           data == IF doRead THEN fread_data(memset_data, at) ELSE memset_data
       IN  /\ output # NULL
           /\ fpos' = IF doRead THEN fread_pos(at) ELSE at
           /\ files' = [files EXCEPT ![output] = @ \o SubSeq(data, 1, k)]
           /\ strides' = strides \cup
                  {[bank |-> this_bank, rom |-> this_rom, pos |-> pos_abs,
                    data |-> data, file |-> output, wrote |-> k]}
    /\ shortWrites' = IF k < stride THEN shortWrites + 1 ELSE shortWrites
    /\ NextStride
    /\ UNCHANGED <<args, input, inputOpen, outputs, open_i, open_j>>

(* fwrite commits the whole stride *)
CopyStride == Copy(stride)

(* fwrite commits less than the stride (disk full, I/O error) *)
CopyStrideShort ==
    /\ shortWrites < MaxFaults
    /\ \E k \in 0 .. stride - 1 : Copy(k)

(* outputs[i][j] with j >= MAXROMSPERBANK indexes past the end of a row of
   the array: undefined behaviour.  The access either lands on the cell of
   a later row (OpenOutput, Copy) or a checked build stops the process *)
BoundsTrap ==
    /\ \/ pc = "OpenOutputs" /\ open_j >= MAXROMSPERBANK
       \/ pc = "Running" /\ this_rom >= MAXROMSPERBANK
    /\ pc' = "Crashed"
    /\ UNCHANGED <<args, input, inputOpen, fpos, outputs, files, open_i, open_j,
                   this_bank, pos_bank, this_rom, strides, shortWrites>>

(* a run in which every fopen succeeds and every fwrite is complete *)
Run ==
    \/ Validate
    \/ OpenInput
    \/ OpenOutput
    \/ CopyStride
    \/ BoundsTrap

(* the same, and the environment may fail an fopen or cut an fwrite short *)
Next ==
    \/ Run
    \/ OpenInputFail
    \/ OpenOutputFail
    \/ CopyStrideShort

Spec == Init /\ [][Next]_vars

SpecNoFault == Init /\ [][Run]_vars

TypeOK ==
    /\ pc \in {"Validate", "Rejected", "Planned", "OpenOutputs", "Running",
               "Completed", "Failed", "Crashed"}
    /\ inputOpen \in BOOLEAN
    /\ fpos \in 0 .. inputsize
    /\ shortWrites \in 0 .. MaxFaults

(* ------------------------- reading the result ------------------------- *)

(* the bytes on disk under the name of slot (b, r); none if never created *)
SlotFile(b, r) ==
    IF output_names(b, r) \in DOMAIN files THEN files[output_names(b, r)] ELSE << >>

(* the logical position whose byte belongs at offset off of slot (b, r) *)
SlotPos(b, r, off) ==
    b * banksz + (off \div stride) * romsperbank * stride + r * stride + (off % stride)

(* the bytes the copy loop put out for logical position p *)
BytesAt(p) ==
    { s.data[j] : <<s, j>> \in
        { <<t, i>> \in strides \X (1 .. MAXSTRIDE) : i <= Len(t.data) /\ t.pos + i - 1 = p } }

NoOutputTouched ==
    /\ DOMAIN files = {}
    /\ strides = {}
    /\ \A c \in Cells : outputs[c] = NULL

NoByteWritten ==
    /\ strides = {}
    /\ \A n \in DOMAIN files : files[n] = << >>

(* C3: every byte the copy loop puts out at a logical position p with
   p mod paduptosize >= inputsize is the padding byte 0xff, the trailing
   bytes of a stride that starts inside the input included, for every
   paduptosize *)
C3_Padding ==
    \A s \in strides : \A j \in 1 .. Len(s.data) :
        ((s.pos + j - 1) % paduptosize >= inputsize) => s.data[j] = PadByte

(* C3's case: a finished run in which a stride started inside the input and
   ended past it, with paduptosize not a multiple of the stride *)
C3_Witness ==
    /\ pc = "Completed"
    /\ paduptosize % stride # 0
    /\ \E s \in strides : \E j \in 2 .. Len(s.data) :
          /\ s.pos % paduptosize < inputsize
          /\ s.data[1] # PadByte
          /\ (s.pos + j - 1) % paduptosize >= inputsize
          /\ s.data[j] = PadByte

(* C1: after a completed run every slot (bank, rom) holds exactly romsize
   bytes: its file is romsize long and the stride writes made for it, times
   the stride, are romsize *)
C1_SlotLength ==
    pc = "Completed" =>
        \A sl \in Slots :
            /\ Len(SlotFile(sl[1], sl[2])) = romsize
            /\ Cardinality({ s \in strides : s.bank = sl[1] /\ s.rom = sl[2] }) * stride
                   = romsize

(* C2: with paduptosize left at its default, after a completed run the byte
   at every offset of every slot is the input byte of its logical position,
   or 0xff when that position is past the end of the input *)
C2_Interleave ==
    (pc = "Completed" /\ args.paduptosize.count = 0) =>
        \A sl \in Slots : \A off \in 0 .. romsize - 1 :
            LET f == SlotFile(sl[1], sl[2])
                p == SlotPos(sl[1], sl[2], off)
            IN  /\ off < Len(f)
                /\ f[off + 1] = IF p < inputsize THEN input[p + 1] ELSE PadByte

(* C4: when paduptosize < totalsz, after a completed run the input's bytes
   0 .. inputsize-1 stand at the start of every repeat window: the byte put
   out at k*paduptosize + i is input[i] *)
C4_Repetition ==
    (pc = "Completed" /\ paduptosize < totalsz) =>
        \A k \in 0 .. totalsz : \A i \in 0 .. inputsize - 1 :
            (k * paduptosize < totalsz /\ k * paduptosize + i < totalsz) =>
                BytesAt(k * paduptosize + i) = {input[i + 1]}

(* C5: when inputsize > paduptosize, every byte put out at logical position
   p is input[p mod paduptosize], so no input byte of index >= paduptosize
   reaches an output *)
C5_Truncation ==
    (pc = "Completed" /\ inputsize > paduptosize) =>
        \A s \in strides : \A j \in 1 .. Len(s.data) :
            s.data[j] = input[((s.pos + j - 1) % paduptosize) + 1]

(* the configurations the data model rules out *)
InvalidConfiguration ==
    \/ rombanks > 4
    \/ romwidth % 8 # 0
    \/ romwidth > 32
    \/ numroms % rombanks # 0
    \/ numroms > 16

(* C6: a configuration that violates an invariant is rejected before any
   file I/O: the run never leaves the checks except to exit, the input is
   not opened and no output is opened, created or written *)
C6_RejectedBeforeIO ==
    InvalidConfiguration =>
        /\ pc \in {"Validate", "Rejected"}
        /\ ~inputOpen
        /\ NoOutputTouched

(* C6's case: the run of an invalid configuration has been rejected *)
C6_Witness ==
    /\ InvalidConfiguration
    /\ pc = "Rejected"

(* C7: once a write has not committed its full stride the run is Failed *)
C7_TruncatedWriteFails ==
    shortWrites > 0 => pc = "Failed"

(* C8: no byte is written to an output until the input and every output
   slot have been opened, and a run that failed to open a file has written
   no byte to any slot *)
C8_OpensBeforeWrites ==
    /\ ~NoByteWritten =>
           /\ inputOpen
           /\ \A sl \in Slots : output_names(sl[1], sl[2]) \in DOMAIN files
    /\ pc = "Failed" => NoByteWritten

(* C8's case: some outputs were opened, the next one could not be *)
C8_Witness ==
    /\ pc = "Failed"
    /\ inputOpen
    /\ DOMAIN files # {}
    /\ NoByteWritten

(* C9: distinct slots have distinct names, the handle stored for a slot is
   still the handle of its own file once all are opened, and every stride
   written for slot (b, r) went to the file named for (b, r) *)
C9_NoCollision ==
    /\ \A s1 \in Slots : \A s2 \in Slots :
           s1 # s2 => output_names(s1[1], s1[2]) # output_names(s2[1], s2[2])
    /\ pc \in {"Running", "Completed"} =>
           \A sl \in Slots : outputs[Cell(sl[1], sl[2])] = output_names(sl[1], sl[2])
    /\ \A s \in strides : s.file = output_names(s.bank, s.rom)

(* C10: in the copy loop the row position strictly increases from one row
   to the next, so the loop ends *)
C10_RowAdvances ==
    pc = "Running" => pos_bank + (romsperbank * stride) > pos_bank

====
